---- MODULE Spec2Model ----
(***************************************************************************)
(* Model of the record log engine of gg_flash_mgr (src/gg_flash_mgr.c):    *)
(* the global engine state g_state, the data file, the metadata (ledger)   *)
(* file and the temporary file used by compaction, and the operations      *)
(* init, deinit, append, read_chunk, delete, cleanup, format, get_status.  *)
(*                                                                         *)
(* A handler is a chain of steps, one per file-system call, linked by pc;  *)
(* a step cannot be skipped: from a pc only the next step of the handler   *)
(* (or a power loss) is enabled.  Every file-system call may fail, and a   *)
(* power loss (Crash) may strike between any two steps.  `faults` counts   *)
(* the injected failures and power losses.                                 *)
(*                                                                         *)
(* Files are byte sequences, kept as runs ("cells") of the bytes           *)
(* [from, to) of one encoded record, so a short write, a misaligned read   *)
(* and a byte-range copy are computed on bytes, not on records.            *)
(***************************************************************************)
EXTENDS Integers, Sequences, FiniteSets, TLC

\* ---------------------------------------------------------------- bounds
\* An append is accepted by the model while next_id and the number of
\* record-sized blocks of the data file are below MaxAppend.
MaxAppend == 3
\* Injected I/O failures and power losses per behaviour.
MaxFaults == 1
\* Entries of the largest store that a compaction is run on.
MaxStore == 67
\* Appends accepted on the store configured with threshold 0.9 and target
\* 0.7, which holds 64 entries: the 58th brings the usage to 90%.
MaxFill == 58
\* Appends that each task without a lock makes.
MaxTaskAppends == 2

\* ------------------------------------------------------ program constants
\* sizeof(flash_mgr_entry_t): packed 4 + 4 + 1 + 1 + 4 + 2 bytes.
ENTRY_SIZE == 16
\* Width of one uint32_t field of flash_mgr_metadata_t.
META_FIELD_SIZE == 4
\* Number of uint32_t fields of flash_mgr_metadata_t (packed, 20 bytes).
META_FIELDS == 5
\* The entry size the configuration header states; no code uses it.
FLASH_MGR_ENTRY_SIZE == 18
FLASH_MGR_MIN_DATA_SIZE == 1024
FLASH_MGR_MAX_DATA_SIZE == 16777216
FLASH_MGR_MIN_CHUNK_BUFFER_SIZE == 1024
FLASH_MGR_MAX_CHUNK_BUFFER_SIZE == 65536
\* 0xFEEDC0DE and the zero word left by memset, as words of the magic field.
FLASH_MGR_METADATA_MAGIC == "0xFEEDC0DE"
ZERO_MAGIC == "0x00000000"
FOREIGN_MAGIC == "0xFFFFFFFF"

ESP_OK == "ESP_OK"
ESP_FAIL == "ESP_FAIL"
ESP_ERR_NO_MEM == "ESP_ERR_NO_MEM"
ESP_ERR_INVALID_ARG == "ESP_ERR_INVALID_ARG"
ESP_ERR_INVALID_STATE == "ESP_ERR_INVALID_STATE"
\* Pseudo result of a call in progress or cut short by a power loss, and of
\* no call yet.
NO_RETURN == "NO_RETURN"

\* ------------------------------------------------------------- inputs
\* Byte counts a failing write may leave behind.
ShortWriteLens == {0, 8}
Timestamps == {100}
Types == {1}
Units == {2}
Values == {-1500}
DeleteCounts == {0, 1, 9}
CleanupTargets == {1, 7}
ReadLimits == {2, 9}

\* A ratio n/d stands for the float n/d; the ratios used are dyadic, so
\* that the float arithmetic of the code on them is exact.
Ratio(n, d) == [n |-> n, d |-> d]

RECURSIVE GCD(_, _)
GCD(a, b) == IF b = 0 THEN a ELSE GCD(b, a % b)

\* The float that is not a number: every comparison with it is false.
NaN == Ratio(0, 0)
IsNaN(x) == x.d = 0

\* a < b and a <= b on floats, cross-multiplied after the common factor of
\* the denominators is taken out.
RatioLess(a, b) ==
    /\ ~IsNaN(a)
    /\ ~IsNaN(b)
    /\ LET g == GCD(a.d, b.d) IN a.n * (b.d \div g) < b.n * (a.d \div g)

RatioLessEq(a, b) ==
    /\ ~IsNaN(a)
    /\ ~IsNaN(b)
    /\ LET g == GCD(a.d, b.d) IN a.n * (b.d \div g) <= b.n * (a.d \div g)

ZeroConfig ==
    [max_data_size |-> 0, chunk_buffer_size |-> 0, format_on_init |-> FALSE,
     auto_cleanup |-> FALSE, cleanup_threshold |-> Ratio(0, 1),
     cleanup_target |-> Ratio(0, 1)]

\* Auto cleanup at 3 of 64 entries, down to 1 entry.
CfgAuto ==
    [max_data_size |-> 1024, chunk_buffer_size |-> 1024, format_on_init |-> FALSE,
     auto_cleanup |-> TRUE, cleanup_threshold |-> Ratio(3, 64),
     cleanup_target |-> Ratio(1, 64)]

CfgManual == [CfgAuto EXCEPT !.auto_cleanup = FALSE]

CfgFormat == [CfgManual EXCEPT !.format_on_init = TRUE]

\* max_data_size for 64 entries, threshold 0.9f and target 0.7f: the values
\* of the two float literals are 15099494 / 2^24 and 11744051 / 2^24.
CfgNineSeven ==
    [CfgAuto EXCEPT !.cleanup_threshold = Ratio(15099494, 16777216),
                    !.cleanup_target = Ratio(11744051, 16777216)]

\* Automatic cleanup down to a target of 0.0f: validation asks only for
\* 0.0 <= target < threshold <= 1.0.
CfgZeroTarget == [CfgAuto EXCEPT !.cleanup_target = Ratio(0, 1)]

\* threshold <= target
CfgBadRatio == [CfgAuto EXCEPT !.cleanup_target = Ratio(3, 64)]

\* max_data_size for 10 entries
CfgTenRecords == [CfgManual EXCEPT !.max_data_size = 10 * ENTRY_SIZE]

\* Configs at and beyond each limit that flash_mgr_init validates.
CfgDataMin == [CfgManual EXCEPT !.max_data_size = FLASH_MGR_MIN_DATA_SIZE]
CfgDataMax == [CfgManual EXCEPT !.max_data_size = FLASH_MGR_MAX_DATA_SIZE]
CfgDataTooLarge == [CfgManual EXCEPT !.max_data_size = FLASH_MGR_MAX_DATA_SIZE + 1]
CfgChunkTooSmall ==
    [CfgManual EXCEPT !.chunk_buffer_size = FLASH_MGR_MIN_CHUNK_BUFFER_SIZE - 1]
CfgChunkMax == [CfgManual EXCEPT !.chunk_buffer_size = FLASH_MGR_MAX_CHUNK_BUFFER_SIZE]
CfgChunkTooLarge ==
    [CfgManual EXCEPT !.chunk_buffer_size = FLASH_MGR_MAX_CHUNK_BUFFER_SIZE + 1]
CfgRatioEnds ==
    [CfgManual EXCEPT !.cleanup_threshold = Ratio(1, 1), !.cleanup_target = Ratio(0, 1)]
CfgTargetAbove ==
    [CfgManual EXCEPT !.cleanup_threshold = Ratio(1, 1), !.cleanup_target = Ratio(3, 2)]
CfgThresholdAbove == [CfgManual EXCEPT !.cleanup_threshold = Ratio(3, 2)]
CfgTargetBelow == [CfgManual EXCEPT !.cleanup_target = Ratio(-1, 64)]
CfgBothBelow ==
    [CfgManual EXCEPT !.cleanup_threshold = Ratio(-1, 64),
                      !.cleanup_target = Ratio(-3, 64)]
CfgThresholdNaN == [CfgManual EXCEPT !.cleanup_threshold = NaN]
CfgTargetNaN == [CfgManual EXCEPT !.cleanup_target = NaN]

\* Config arguments around every limit of the validation of flash_mgr_init.
WideConfigArgs ==
    {<<>>, <<CfgManual>>, <<CfgNineSeven>>, <<CfgBadRatio>>, <<CfgTenRecords>>,
     <<CfgDataMin>>, <<CfgDataMax>>, <<CfgDataTooLarge>>, <<CfgChunkTooSmall>>,
     <<CfgChunkMax>>, <<CfgChunkTooLarge>>, <<CfgRatioEnds>>, <<CfgTargetAbove>>,
     <<CfgThresholdAbove>>, <<CfgTargetBelow>>, <<CfgBothBelow>>,
     <<CfgThresholdNaN>>, <<CfgTargetNaN>>}

\* The config argument of flash_mgr_init: <<>> is NULL, <<c>> points to c.
ConfigArgs == {<<>>, <<CfgAuto>>, <<CfgManual>>, <<CfgFormat>>, <<CfgBadRatio>>}

\* ------------------------------------------------------------- records
\* flash_mgr_entry_t
Entry(ts, id, type, unit, value) ==
    [timestamp |-> ts, id |-> id, type |-> type, unit |-> unit,
     value_x1000 |-> value, reserved |-> <<0, 0>>]

NoEntry == Entry(0, 0, 0, 0, 0)

\* flash_mgr_metadata_t after memset(0)
ZeroMeta ==
    [total_entries |-> 0, active_entries |-> 0, next_id |-> 0,
     deleted_from_start |-> 0, magic |-> ZERO_MAGIC]

\* memset(&g_state.meta, 0, ...); g_state.meta.magic = FLASH_MGR_METADATA_MAGIC
FreshMeta == [ZeroMeta EXCEPT !.magic = FLASH_MGR_METADATA_MAGIC]

\* The packed layout of flash_mgr_metadata_t: five 32-bit words in order.
EncodeMeta(m) ==
    <<m.total_entries, m.active_entries, m.next_id, m.deleted_from_start>>
    \o <<m.magic>>

\* fread into g_state.meta of the words of a file: the words present
\* overwrite the fields in order, the others keep their value.
OverlayMeta(m, words) ==
    [total_entries |-> IF Len(words) >= 1 THEN words[1] ELSE m.total_entries,
     active_entries |-> IF Len(words) >= 2 THEN words[2] ELSE m.active_entries,
     next_id |-> IF Len(words) >= 3 THEN words[3] ELSE m.next_id,
     deleted_from_start |-> IF Len(words) >= 4 THEN words[4]
                            ELSE m.deleted_from_start,
     magic |-> IF Len(words) >= 5 THEN words[5] ELSE m.magic]

\* ---------------------------------------------------------------- files
\* A file: whether the path exists, and its bytes.  The bytes of the data
\* and temporary file are a sequence of cells; the bytes of the metadata
\* file are a sequence of 32-bit words.
AbsentFile == [exists |-> FALSE, bytes |-> <<>>]
EmptyFile == [exists |-> TRUE, bytes |-> <<>>]
FileOf(bytes) == [exists |-> TRUE, bytes |-> bytes]

\* The bytes [from, to) of the encoding of entry e.
Cell(e, from, to) == [rec |-> e, from |-> from, to |-> to]
\* fwrite(&entry, sizeof(flash_mgr_entry_t), 1, f): the whole encoding.
EncodeEntry(e) == <<Cell(e, 0, ENTRY_SIZE)>>
CellLen(c) == c.to - c.from

RECURSIVE ByteLen(_)
ByteLen(bytes) ==
    IF bytes = <<>> THEN 0 ELSE CellLen(Head(bytes)) + ByteLen(Tail(bytes))

\* Concatenation of byte sequences; two runs of the same record that
\* continue each other are one run.
Join(a, b) ==
    IF a = <<>> THEN b
    ELSE IF b = <<>> THEN a
    ELSE LET x == a[Len(a)]
             y == Head(b)
         IN IF x.rec = y.rec /\ x.to = y.from
            THEN SubSeq(a, 1, Len(a) - 1) \o <<Cell(x.rec, x.from, y.to)>>
                 \o Tail(b)
            ELSE a \o b

\* The bytes from offset n on.
RECURSIVE DropBytes(_, _)
DropBytes(bytes, n) ==
    IF n <= 0 \/ bytes = <<>> THEN bytes
    ELSE LET c == Head(bytes)
         IN IF CellLen(c) <= n THEN DropBytes(Tail(bytes), n - CellLen(c))
            ELSE <<Cell(c.rec, c.from + n, c.to)>> \o Tail(bytes)

\* The first n bytes (fewer if the sequence is shorter).
RECURSIVE TakeBytes(_, _)
TakeBytes(bytes, n) ==
    IF n <= 0 \/ bytes = <<>> THEN <<>>
    ELSE LET c == Head(bytes)
         IN IF CellLen(c) <= n
            THEN <<c>> \o TakeBytes(Tail(bytes), n - CellLen(c))
            ELSE <<Cell(c.rec, c.from, c.from + n)>>

\* A record-sized block read back into a flash_mgr_entry_t: the entry that
\* was written if the block is exactly its encoding, else an entry torn
\* from the bytes of the block.
DecodeEntry(block) ==
    IF Len(block) = 1 /\ block[1].from = 0 /\ block[1].to = ENTRY_SIZE
    THEN [torn |-> FALSE, entry |-> block[1].rec, block |-> <<>>]
    ELSE [torn |-> TRUE, entry |-> NoEntry, block |-> block]

\* Number of whole record-sized blocks of a byte sequence.
Blocks(bytes) == ByteLen(bytes) \div ENTRY_SIZE

\* The k-th record-sized block (k from 0).
BlockAt(bytes, k) == TakeBytes(DropBytes(bytes, k * ENTRY_SIZE), ENTRY_SIZE)

\* Number of whole records physically present: the runs of the file that
\* are the complete encoding of an entry, at a record boundary or not.
WholeRecords(f) ==
    Cardinality({k \in 1..Len(f.bytes) : CellLen(f.bytes[k]) = ENTRY_SIZE})

\* The entries of the file, block by block.
EntriesOf(f) ==
    [k \in 1..Blocks(f.bytes) |-> DecodeEntry(BlockAt(f.bytes, k - 1))]

\* ---------------------------------------------------------------- state
VARIABLES
    initialized,  \* g_state.initialized
    config,       \* g_state.config
    meta,         \* g_state.meta, the in-memory ledger
    mounted,      \* the LittleFS partition is registered
    data_file,    \* the file at config.data_file
    meta_file,    \* the file at config.meta_file
    temp_file,    \* the file at "<data_file>_temp.bin"
    pc,           \* position of the thread of control inside a handler
    op,           \* locals of the handler in progress
    call,         \* the API call in progress or last made, with the state at its entry
    ret,          \* value returned by the last completed API call
    returned_at,  \* the step at which the last API call returned or was cut
    out,          \* output parameters written by the last API call
    faults,       \* injected failures and power losses so far
    survivors,    \* history: the entries counted into the ledger and not
                  \* counted out of it by an eviction or a format, oldest first
    threads,      \* the tasks that call flash_mgr_append without a lock:
                  \* their positions and locals, and whether two calls
                  \* have overlapped
    resources     \* the FILE handles that are open and the malloc'ed
                  \* buffers that are not freed

gstate == <<initialized, config, meta, mounted>>
files == <<data_file, meta_file, temp_file>>
history == <<survivors>>
vars == <<initialized, config, meta, mounted, data_file, meta_file, temp_file,
          pc, op, call, ret, returned_at, out, faults, survivors, threads,
          resources>>

NoOp == [name |-> "none", entry |-> NoEntry, count |-> 0, bytes_copied |-> 0,
         save_for |-> "none", cleanup_ret |-> ESP_OK]

\* The uint32_t that an unsigned 32-bit computation with the mathematical
\* result x yields, as its two 16-bit halves: a difference below zero wraps
\* around to 2^32 + x.
U32(x) == [hi |-> (x \div 65536) % 65536, lo |-> x % 65536]

ZeroStatus ==
    [total_entries |-> 0, active_entries |-> 0, deleted_entries |-> 0,
     free_space_bytes |-> U32(0), used_space_bytes |-> U32(0),
     initialized |-> FALSE]

NoOut == [entries_read |-> 0, buffer |-> <<>>, status |-> ZeroStatus]

\* The API call that a power loss has just cut short ("none" otherwise).
Interrupted ==
    IF pc = "idle" /\ ret = NO_RETURN /\ returned_at # "idle" THEN call.name
    ELSE "none"

\* The state an API call starts from.
Snapshot ==
    [initialized |-> initialized, config |-> config, meta |-> meta,
     mounted |-> mounted, data_file |-> data_file, meta_file |-> meta_file,
     temp_file |-> temp_file, survivors |-> survivors, interrupted |-> Interrupted]

NoCall == [name |-> "none", args |-> <<>>,
           pre |-> [initialized |-> FALSE, config |-> ZeroConfig, meta |-> ZeroMeta,
                    mounted |-> FALSE, data_file |-> AbsentFile,
                    meta_file |-> AbsentFile, temp_file |-> AbsentFile,
                    survivors |-> <<>>, interrupted |-> "none"]]

\* A metadata file left by other firmware: a whole ledger with another magic.
\* The tasks that call the engine without a lock.
Threads == {1, 2}

\* A task outside the engine: reg is the register its next load fills,
\* entry the local flash_mgr_entry_t, calls the appends it has started.
IdleTask == [pc |-> "idle", reg |-> 0, entry |-> NoEntry, calls |-> 0]

NoThreads == [task |-> [t \in Threads |-> IdleTask], overlapped |-> FALSE]

ForeignMetaFile == FileOf(<<3, 3, 3, 0, FOREIGN_MAGIC>>)

Init ==
    /\ initialized = FALSE
    /\ config = ZeroConfig
    /\ meta = ZeroMeta
    /\ mounted = FALSE
    /\ data_file = AbsentFile
    /\ meta_file \in {AbsentFile, ForeignMetaFile}
    /\ temp_file = AbsentFile
    /\ pc = "idle"
    /\ op = NoOp
    /\ call = NoCall
    /\ ret = NO_RETURN
    /\ returned_at = "idle"
    /\ out = NoOut
    /\ faults = 0
    /\ survivors = <<>>
    /\ threads = NoThreads
    /\ resources = {}

\* ------------------------------------------------------------ plumbing
\* An API call enters its handler.
Enter(name, args) ==
    /\ pc = "idle"
    /\ call' = [name |-> name, args |-> args, pre |-> Snapshot]
    /\ out' = NoOut

\* The handler returns r to the API caller, after the fclose and free
\* calls that release the handles and buffers in released.
Leave(r, released) ==
    /\ pc' = "idle"
    /\ op' = NoOp
    /\ ret' = r
    /\ returned_at' = pc
    /\ resources' = resources \ released
    /\ UNCHANGED threads

\* The handler returns r to the API caller.
Return(r) == Leave(r, {})

\* The handler goes on at label l with locals o, after the fopen and malloc
\* calls that gave it acquired and the fclose and free calls that release
\* released.
Step(l, o, acquired, released) ==
    /\ pc' = l
    /\ op' = o
    /\ ret' = NO_RETURN
    /\ returned_at' = "running"
    /\ resources' = (resources \cup acquired) \ released
    /\ UNCHANGED threads

\* The handler goes on at label l with locals o.
Goto(l, o) == Step(l, o, {}, {})

\* n file-system calls of the step fail by injection.
Inject(n) ==
    /\ faults + n <= MaxFaults
    /\ faults' = faults + n

Bit(b) == IF b THEN 1 ELSE 0

\* remove(path): the file is gone unless the call fails; it fails when
\* there is no such file.
Remove(f, fail) == IF fail \/ ~f.exists THEN f ELSE AbsentFile

\* The history after the ledger has counted out the oldest count entries.
Evicted(h, count) == SubSeq(h, count + 1, Len(h))

\* flash_mgr_delete returns r to its caller: perform_auto_cleanup inside an
\* append, whose caller logs the result and goes on to its save_metadata,
\* or the API caller (directly or through flash_mgr_cleanup).
DeleteLeaves(o, r, released) ==
    IF o.name = "append"
    THEN Step("save_open", [o EXCEPT !.save_for = "append", !.cleanup_ret = r],
              {}, released)
    ELSE Leave(r, released)

\* flash_mgr_delete returns r with nothing left to release.
DeleteReturns(o, r) == DeleteLeaves(o, r, {})

\* ------------------------------------------------------- metadata ledger
\* A load_metadata that takes over the counters of a ledger file whose
\* magic is not FLASH_MGR_METADATA_MAGIC.
LoadMetadataKeepsForeign(m, f, fault) ==
    IF ~f.exists \/ fault = "open"
    THEN [ret |-> ESP_OK, meta |-> FreshMeta]
    ELSE IF fault = "read"
    THEN [ret |-> ESP_FAIL, meta |-> m]
    ELSE IF Len(f.bytes) < META_FIELDS
    THEN [ret |-> ESP_FAIL, meta |-> OverlayMeta(m, f.bytes)]
    ELSE [ret |-> ESP_OK, meta |-> OverlayMeta(m, f.bytes)]

\* load_metadata: fault "open" makes fopen fail, "read" makes fread fail.
LoadMetadata(m, f, fault) ==
    IF ~f.exists \/ fault = "open"
    THEN [ret |-> ESP_OK, meta |-> FreshMeta]
    ELSE IF fault = "read"
    THEN [ret |-> ESP_FAIL, meta |-> m]
    ELSE IF Len(f.bytes) < META_FIELDS
    THEN [ret |-> ESP_FAIL, meta |-> OverlayMeta(m, f.bytes)]
    ELSE LET l == OverlayMeta(m, f.bytes)
         IN IF l.magic # FLASH_MGR_METADATA_MAGIC
            THEN [ret |-> ESP_OK, meta |-> FreshMeta]
            ELSE [ret |-> ESP_OK, meta |-> l]

\* The words of the ledger that a write of k bytes puts into the file.
MetaPrefix(m, k) == SubSeq(EncodeMeta(m), 1, k \div META_FIELD_SIZE)

\* What the caller of save_metadata does with its result r.
\* flash_mgr_deinit drops the result, unregisters the file system and
\* zeroes g_state; flash_mgr_delete returns it; append and format return it.
AfterSave(r, released) ==
    IF op.save_for = "deinit"
    THEN /\ Leave(ESP_OK, released)
         /\ initialized' = FALSE
         /\ config' = ZeroConfig
         /\ meta' = ZeroMeta
         /\ mounted' = FALSE
    ELSE /\ UNCHANGED gstate
         /\ IF op.save_for = "delete"
            THEN DeleteLeaves(op, r, released)
            ELSE Leave(r, released)

\* save_metadata: fopen(meta_file, "wb")
SaveOpen ==
    /\ pc = "save_open"
    /\ \E fail \in BOOLEAN :
        /\ Inject(Bit(fail))
        /\ IF fail
           THEN /\ AfterSave(ESP_FAIL, {})
                /\ UNCHANGED files
           ELSE /\ meta_file' = EmptyFile
                /\ Step("save_write", op, {"meta_f"}, {})
                /\ UNCHANGED <<gstate, data_file, temp_file>>
    /\ UNCHANGED <<call, out, history>>

\* save_metadata: fwrite of the whole struct, fclose(f)
SaveWrite ==
    /\ pc = "save_write"
    /\ \E fail \in BOOLEAN :
        /\ Inject(Bit(fail))
        /\ IF fail
           THEN \E k \in ShortWriteLens :
                    /\ meta_file' = FileOf(MetaPrefix(meta, k))
                    /\ AfterSave(ESP_FAIL, {"meta_f"})
           ELSE /\ meta_file' = FileOf(EncodeMeta(meta))
                /\ AfterSave(ESP_OK, {"meta_f"})
    /\ UNCHANGED <<data_file, temp_file, call, out, history>>

\* ----------------------------------------------------------------- init
\* The configs that pass the four rejecting tests of flash_mgr_init, each
\* test written as in the code: a comparison with a NaN is false, so a NaN
\* ratio is rejected by none of them.
ConfigValid(c) ==
    /\ ~(\/ c.max_data_size < FLASH_MGR_MIN_DATA_SIZE
         \/ c.max_data_size > FLASH_MGR_MAX_DATA_SIZE)
    /\ ~(\/ c.chunk_buffer_size < FLASH_MGR_MIN_CHUNK_BUFFER_SIZE
         \/ c.chunk_buffer_size > FLASH_MGR_MAX_CHUNK_BUFFER_SIZE)
    /\ ~RatioLessEq(c.cleanup_threshold, c.cleanup_target)
    /\ ~(\/ RatioLess(Ratio(1, 1), c.cleanup_threshold)
         \/ RatioLess(Ratio(1, 1), c.cleanup_target)
         \/ RatioLess(c.cleanup_threshold, Ratio(0, 1))
         \/ RatioLess(c.cleanup_target, Ratio(0, 1)))

\* The steps of flash_mgr_init that can fail by injection.
InitFaults == {"none", "flash", "format", "mount", "open", "read"}

\* A second flash_mgr_init that takes over the config it is given.
InitAgainReconfigures(arg) ==
    /\ ret' = ESP_OK
    /\ returned_at' = "already_initialized"
    /\ config' = IF arg = <<>> THEN config ELSE arg[1]
    /\ UNCHANGED <<initialized, meta, mounted, files, faults, survivors>>

\* flash_mgr_init on an initialized engine: "Already initialized"
InitAgain(arg) ==
    /\ ret' = ESP_OK
    /\ returned_at' = "already_initialized"
    /\ UNCHANGED <<gstate, files, faults, survivors>>

\* flash_mgr_init with config argument arg and the step that fails by
\* injection (if any).  The handler makes no file-system change other than
\* formatting the partition; it is one step.
InitCall(arg, fault) ==
    /\ Enter("init", <<arg>>)
    /\ UNCHANGED <<op, threads, resources>>
    /\ pc' = "idle"
    /\ IF initialized
       THEN /\ fault = "none"
            /\ InitAgain(arg)
       ELSE IF arg = <<>> \/ ~ConfigValid(arg[1])
       THEN /\ fault = "none"
            /\ ret' = ESP_ERR_INVALID_ARG
            /\ returned_at' = "validation"
            /\ UNCHANGED <<gstate, files, faults, survivors>>
       ELSE LET c == arg[1]
                \* esp_littlefs_format_partition wipes every file
                wiped == c.format_on_init /\ fault \notin {"flash", "format"}
                mf == IF wiped THEN AbsentFile ELSE meta_file
                \* registering a partition that is registered fails
                mountFails == fault = "mount" \/ mounted
                l == LoadMetadata(meta, mf, fault)
            IN  /\ fault = "format" => c.format_on_init
                /\ fault = "mount" => ~mounted
                /\ fault \in {"open", "read"} => ~mounted /\ mf.exists
                /\ Inject(Bit(fault # "none"))
                /\ config' = c
                /\ data_file' = IF wiped THEN AbsentFile ELSE data_file
                /\ temp_file' = IF wiped THEN AbsentFile ELSE temp_file
                /\ meta_file' = mf
                /\ survivors' = IF wiped THEN <<>> ELSE survivors
                /\ IF fault \in {"flash", "format"} \/ mountFails
                   THEN /\ ret' = IF fault = "none" THEN ESP_ERR_INVALID_STATE
                                  ELSE ESP_FAIL
                        /\ returned_at' = IF fault = "flash"
                                          THEN "init_external_flash"
                                          ELSE "init_littlefs"
                        /\ UNCHANGED <<initialized, meta, mounted>>
                   ELSE /\ mounted' = TRUE
                        /\ meta' = l.meta
                        /\ ret' = l.ret
                        /\ returned_at' = IF l.ret = ESP_OK THEN "end"
                                          ELSE "load_metadata"
                        /\ initialized' = (l.ret = ESP_OK)

\* flash_mgr_init
FlashMgrInit ==
    /\ pc = "idle"
    /\ \E arg \in ConfigArgs, fault \in InitFaults : InitCall(arg, fault)

\* flash_mgr_init with the configs around the limits of its validation
FlashMgrInitWide ==
    /\ pc = "idle"
    /\ \E arg \in WideConfigArgs, fault \in InitFaults : InitCall(arg, fault)

\* flash_mgr_deinit
FlashMgrDeinit ==
    /\ Enter("deinit", <<>>)
    /\ IF ~initialized
       THEN Return(ESP_OK)
       ELSE Goto("save_open", [NoOp EXCEPT !.name = "deinit", !.save_for = "deinit"])
    /\ UNCHANGED <<gstate, files, faults, history>>

\* --------------------------------------------------------------- delete
\* A clamp that leaves the newest entry in place.
ClampCountKeepsOne(m, count) ==
    IF count > m.active_entries
    THEN IF m.active_entries > 0 THEN m.active_entries - 1 ELSE 0
    ELSE count

\* if (count > active_entries) count = active_entries
ClampCount(m, count) ==
    IF count > m.active_entries THEN m.active_entries ELSE count

\* A compaction that takes the entries out of active_entries and forgets to
\* add them to deleted_from_start.
CountEvictActiveOnly(m, count) ==
    [m EXCEPT !.active_entries = @ - count]

\* g_state.meta.active_entries -= count; deleted_from_start += count
CountEvict(m, count) ==
    [m EXCEPT !.active_entries = @ - count, !.deleted_from_start = @ + count]

\* A full clear that sets deleted_from_start to the entries it deleted.
CountFullClearResets(m, count) ==
    [m EXCEPT !.active_entries = 0, !.deleted_from_start = count]

\* g_state.meta.active_entries = 0; deleted_from_start += count
CountFullClear(m, count) ==
    [m EXCEPT !.active_entries = 0, !.deleted_from_start = @ + count]

\* A flash_mgr_delete that writes the ledger file even when it has nothing
\* to delete.
DeleteCallAlwaysSaves(o, m, count) ==
    LET c == ClampCount(m, count)
    IN  IF c = 0
        THEN Goto("save_open", [o EXCEPT !.save_for = "delete"])
        ELSE Goto(IF m.active_entries - c = 0 THEN "del_full_remove"
                  ELSE "del_malloc",
                  [o EXCEPT !.count = c])

\* The head of flash_mgr_delete(count), entered with locals o and ledger m
\* by the API call, by flash_mgr_cleanup or by perform_auto_cleanup.
DeleteEnter(o, m, count, released) ==
    LET c == ClampCount(m, count)
    IN  IF c = 0
        THEN DeleteLeaves(o, ESP_OK, released)
        ELSE Step(IF m.active_entries - c = 0 THEN "del_full_remove"
                  ELSE "del_malloc",
                  [o EXCEPT !.count = c], {}, released)

\* flash_mgr_delete(count) called with no handle of the caller open.
DeleteCall(o, m, count) == DeleteEnter(o, m, count, {})

\* remaining_entries * sizeof(flash_mgr_entry_t)
RemainingBytes(m, count) == (m.active_entries - count) * ENTRY_SIZE

\* A seek that stops one entry short of the entries to delete.
BytesToSkipOneLess(count) == (count - 1) * ENTRY_SIZE

\* count * sizeof(flash_mgr_entry_t)
BytesToSkip(count) == count * ENTRY_SIZE

\* The size of the next chunk of the copy loop.
ChunkSize(c, remaining_bytes, bytes_copied) ==
    IF remaining_bytes - bytes_copied > c.chunk_buffer_size
    THEN c.chunk_buffer_size
    ELSE remaining_bytes - bytes_copied

\* flash_mgr_delete
FlashMgrDelete ==
    /\ \E count \in DeleteCounts :
        /\ Enter("delete", <<count>>)
        /\ IF ~initialized
           THEN Return(ESP_ERR_INVALID_STATE)
           ELSE DeleteCall([NoOp EXCEPT !.name = "delete"], meta, count)
    /\ UNCHANGED <<gstate, files, faults, history>>

\* flash_mgr_cleanup
FlashMgrCleanup ==
    /\ \E target_entries \in CleanupTargets :
        /\ Enter("cleanup", <<target_entries>>)
        /\ IF ~initialized
           THEN Return(ESP_ERR_INVALID_STATE)
           ELSE IF target_entries >= meta.active_entries
           THEN Return(ESP_OK)
           ELSE DeleteCall([NoOp EXCEPT !.name = "cleanup"], meta,
                           meta.active_entries - target_entries)
    /\ UNCHANGED <<gstate, files, faults, history>>

\* remaining_entries == 0: remove(data_file), whose failure is only logged,
\* then the ledger update and save_metadata
DelFullRemove ==
    /\ pc = "del_full_remove"
    /\ \E fail \in BOOLEAN :
        /\ fail => data_file.exists
        /\ Inject(Bit(fail))
        /\ data_file' = Remove(data_file, fail)
    /\ meta' = CountFullClear(meta, op.count)
    /\ survivors' = Evicted(survivors, op.count)
    /\ Goto("save_open", [op EXCEPT !.save_for = "delete"])
    /\ UNCHANGED <<initialized, config, mounted, meta_file, temp_file, call, out>>

\* malloc(chunk_buffer_size)
DelMalloc ==
    /\ pc = "del_malloc"
    /\ \E fail \in BOOLEAN :
        /\ Inject(Bit(fail))
        /\ IF fail
           THEN DeleteReturns(op, ESP_ERR_NO_MEM)
           ELSE Step("del_open_src", op, {"chunk_buffer"}, {})
    /\ UNCHANGED <<gstate, files, call, out, history>>

\* fopen(data_file, "rb")
DelOpenSrc ==
    /\ pc = "del_open_src"
    /\ \E fail \in BOOLEAN :
        /\ fail => data_file.exists
        /\ Inject(Bit(fail))
        /\ IF fail \/ ~data_file.exists
           THEN DeleteLeaves(op, ESP_FAIL, {"chunk_buffer"})
           ELSE Step("del_open_dst", op, {"src"}, {})
    /\ UNCHANGED <<gstate, files, call, out, history>>

\* fopen(temp_file, "wb") whose failure path returns without fclose(src)
DelOpenDstKeepsSrc ==
    /\ pc = "del_open_dst"
    /\ \E fail \in BOOLEAN :
        /\ Inject(Bit(fail))
        /\ IF fail
           THEN /\ DeleteLeaves(op, ESP_FAIL, {"chunk_buffer"})
                /\ UNCHANGED temp_file
           ELSE /\ temp_file' = EmptyFile
                /\ Step("del_seek", op, {"dst"}, {})
    /\ UNCHANGED <<gstate, data_file, meta_file, call, out, history>>

\* fopen(temp_file, "wb"); on failure fclose(src), free(chunk_buffer)
DelOpenDst ==
    /\ pc = "del_open_dst"
    /\ \E fail \in BOOLEAN :
        /\ Inject(Bit(fail))
        /\ IF fail
           THEN /\ DeleteLeaves(op, ESP_FAIL, {"src", "chunk_buffer"})
                /\ UNCHANGED temp_file
           ELSE /\ temp_file' = EmptyFile
                /\ Step("del_seek", op, {"dst"}, {})
    /\ UNCHANGED <<gstate, data_file, meta_file, call, out, history>>

\* fseek(src, bytes_to_skip, SEEK_SET); on failure remove(temp_file)
DelSeek ==
    /\ pc = "del_seek"
    /\ \E fail \in BOOLEAN, rmfail \in BOOLEAN :
        /\ rmfail => fail
        /\ Inject(Bit(fail) + Bit(rmfail))
        /\ IF fail
           THEN /\ temp_file' = Remove(temp_file, rmfail)
                /\ DeleteLeaves(op, ESP_FAIL, {"src", "dst", "chunk_buffer"})
           ELSE /\ Goto("del_copy", [op EXCEPT !.bytes_copied = 0])
                /\ UNCHANGED temp_file
    /\ UNCHANGED <<gstate, data_file, meta_file, call, out, history>>

\* An iteration of the copy loop that copies its chunk and leaves
\* bytes_copied where it was.
DelCopyKeepsBytesCopied ==
    /\ pc = "del_copy"
    /\ LET remaining_bytes == RemainingBytes(meta, op.count)
           chunk_size == ChunkSize(config, remaining_bytes, op.bytes_copied)
           chunk == TakeBytes(DropBytes(data_file.bytes,
                                        BytesToSkip(op.count) + op.bytes_copied),
                              chunk_size)
       IN \E fault \in {"none", "read", "write"} :
            /\ Inject(Bit(fault # "none"))
            /\ IF fault # "none" \/ ByteLen(chunk) # chunk_size
               THEN /\ Goto("del_close", op)
                    /\ UNCHANGED temp_file
               ELSE /\ temp_file' = FileOf(Join(temp_file.bytes, chunk))
                    /\ Goto("del_copy", op)
    /\ UNCHANGED <<gstate, data_file, meta_file, call, out, history>>

\* One iteration of the copy loop: fread a chunk from src, fwrite it to
\* dst.  A short read or a short write leaves the loop.
DelCopy ==
    /\ pc = "del_copy"
    /\ LET remaining_bytes == RemainingBytes(meta, op.count)
           chunk_size == ChunkSize(config, remaining_bytes, op.bytes_copied)
           chunk == TakeBytes(DropBytes(data_file.bytes,
                                        BytesToSkip(op.count) + op.bytes_copied),
                              chunk_size)
       IN \E fault \in {"none", "read", "write"} :
            /\ Inject(Bit(fault # "none"))
            /\ IF fault = "read" \/ ByteLen(chunk) # chunk_size
               THEN /\ fault # "write"
                    /\ Goto("del_close", op)
                    /\ UNCHANGED temp_file
               ELSE IF fault = "write"
               THEN /\ \E k \in ShortWriteLens :
                        /\ k < chunk_size
                        /\ temp_file' = FileOf(Join(temp_file.bytes,
                                                    TakeBytes(chunk, k)))
                    /\ Goto("del_close", op)
               ELSE /\ temp_file' = FileOf(Join(temp_file.bytes, chunk))
                    /\ Goto(IF op.bytes_copied + chunk_size < remaining_bytes
                            THEN "del_copy" ELSE "del_close",
                            [op EXCEPT !.bytes_copied = @ + chunk_size])
    /\ UNCHANGED <<gstate, data_file, meta_file, call, out, history>>

\* fclose(src); fclose(dst); free(chunk_buffer); a short copy removes the
\* temporary file and fails
DelClose ==
    /\ pc = "del_close"
    /\ IF op.bytes_copied # RemainingBytes(meta, op.count)
       THEN \E rmfail \in BOOLEAN :
                /\ Inject(Bit(rmfail))
                /\ temp_file' = Remove(temp_file, rmfail)
                /\ DeleteLeaves(op, ESP_FAIL, {"src", "dst", "chunk_buffer"})
       ELSE /\ Step("del_remove_orig", op, {}, {"src", "dst", "chunk_buffer"})
            /\ UNCHANGED <<temp_file, faults>>
    /\ UNCHANGED <<gstate, data_file, meta_file, call, out, history>>

\* remove(data_file) with the ledger update placed before the rename
DelRemoveOrigUpdatesLedger ==
    /\ pc = "del_remove_orig"
    /\ \E fail \in BOOLEAN, rmfail \in BOOLEAN :
        /\ rmfail => fail
        /\ Inject(Bit(fail) + Bit(rmfail))
        /\ IF fail
           THEN /\ temp_file' = Remove(temp_file, rmfail)
                /\ DeleteReturns(op, ESP_FAIL)
                /\ UNCHANGED <<data_file, meta>>
           ELSE /\ data_file' = Remove(data_file, FALSE)
                /\ meta' = CountEvict(meta, op.count)
                /\ Goto("del_rename", op)
                /\ UNCHANGED temp_file
    /\ UNCHANGED <<initialized, config, mounted, meta_file, call, out, history>>

\* remove(data_file); on failure remove(temp_file)
DelRemoveOrig ==
    /\ pc = "del_remove_orig"
    /\ \E fail \in BOOLEAN, rmfail \in BOOLEAN :
        /\ rmfail => fail
        /\ Inject(Bit(fail) + Bit(rmfail))
        /\ IF fail
           THEN /\ temp_file' = Remove(temp_file, rmfail)
                /\ DeleteReturns(op, ESP_FAIL)
                /\ UNCHANGED data_file
           ELSE /\ data_file' = Remove(data_file, FALSE)
                /\ Goto("del_rename", op)
                /\ UNCHANGED temp_file
    /\ UNCHANGED <<gstate, meta_file, call, out, history>>

\* rename(temp_file, data_file), then the ledger update and save_metadata
DelRename ==
    /\ pc = "del_rename"
    /\ \E fail \in BOOLEAN :
        /\ Inject(Bit(fail))
        /\ IF fail
           THEN /\ DeleteReturns(op, ESP_FAIL)
                /\ UNCHANGED <<meta, data_file, temp_file, survivors>>
           ELSE /\ data_file' = temp_file
                /\ temp_file' = AbsentFile
                /\ meta' = CountEvict(meta, op.count)
                /\ survivors' = Evicted(survivors, op.count)
                /\ Goto("save_open", [op EXCEPT !.save_for = "delete"])
    /\ UNCHANGED <<initialized, config, mounted, meta_file, call, out>>

\* --------------------------------------------------------------- append
\* An append that counts the entry into total_entries and forgets
\* active_entries.
CountAppendTotalOnly(m) ==
    [m EXCEPT !.total_entries = @ + 1]

\* g_state.meta.total_entries++; g_state.meta.active_entries++
CountAppend(m) ==
    [m EXCEPT !.total_entries = @ + 1, !.active_entries = @ + 1]

\* usage_ratio > cleanup_threshold in place of >=
UsageAboveThreshold(m, c) ==
    LET g == GCD(c.cleanup_threshold.d, c.max_data_size)
    IN  /\ ~IsNaN(c.cleanup_threshold)
        /\ m.active_entries * ENTRY_SIZE * (c.cleanup_threshold.d \div g)
            > c.cleanup_threshold.n * (c.max_data_size \div g)

\* usage_ratio >= cleanup_threshold, where usage_ratio is
\* (float)(active_entries * sizeof(flash_mgr_entry_t)) / max_data_size.
\* max_data_size is a power of two in every config of the model, so the
\* float quotient is exact; the comparison is cross-multiplied after the
\* common factor of the two denominators is taken out.
UsageAtThreshold(m, c) ==
    LET g == GCD(c.cleanup_threshold.d, c.max_data_size)
    IN  /\ ~IsNaN(c.cleanup_threshold)
        /\ m.active_entries * ENTRY_SIZE * (c.cleanup_threshold.d \div g)
            >= c.cleanup_threshold.n * (c.max_data_size \div g)

\* calculate_max_entries
CalculateMaxEntries(c) == c.max_data_size \div ENTRY_SIZE

\* An eviction target rounded up instead of truncated.
TargetEntriesRoundedUp(c) ==
    (CalculateMaxEntries(c) * c.cleanup_target.n) \div c.cleanup_target.d + 1

\* (uint32_t)(max_entries * cleanup_target): max_entries is a power of two
\* in every config of the model, so the float product is exact.
TargetEntries(c) ==
    (CalculateMaxEntries(c) * c.cleanup_target.n) \div c.cleanup_target.d

\* Appends that the model accepts on an engine configured with c.
AppendCap(c) == IF c = CfgNineSeven THEN MaxFill ELSE MaxAppend

\* flash_mgr_append_with_timestamp: the entry takes next_id, which is
\* incremented, before the data file is opened.
FlashMgrAppend ==
    /\ \E ts \in Timestamps, type \in Types, unit \in Units, value \in Values :
        /\ Enter("append", <<ts, type, unit, value>>)
        /\ IF ~initialized
           THEN /\ Return(ESP_ERR_INVALID_STATE)
                /\ UNCHANGED meta
           ELSE /\ meta.next_id < AppendCap(config)
                /\ Blocks(data_file.bytes) < AppendCap(config)
                /\ meta' = [meta EXCEPT !.next_id = @ + 1]
                /\ Goto("append_open",
                        [NoOp EXCEPT !.name = "append",
                                     !.entry = Entry(ts, meta.next_id, type, unit, value)])
    /\ UNCHANGED <<initialized, config, mounted, files, faults, history>>

\* fopen(data_file, "ab"): creates the file when it is absent
AppendOpen ==
    /\ pc = "append_open"
    /\ \E fail \in BOOLEAN :
        /\ Inject(Bit(fail))
        /\ IF fail
           THEN /\ Return(ESP_FAIL)
                /\ UNCHANGED data_file
           ELSE /\ data_file' = FileOf(data_file.bytes)
                /\ Step("append_write", op, {"f"}, {})
    /\ UNCHANGED <<gstate, meta_file, temp_file, call, out, history>>

\* fwrite of the entry and fclose; then the ledger update, the auto
\* cleanup check with perform_auto_cleanup, and save_metadata
AppendWrite ==
    /\ pc = "append_write"
    /\ \E fail \in BOOLEAN :
        /\ Inject(Bit(fail))
        /\ IF fail
           THEN /\ \E k \in ShortWriteLens :
                    data_file' = FileOf(Join(data_file.bytes,
                                             TakeBytes(EncodeEntry(op.entry), k)))
                /\ Leave(ESP_FAIL, {"f"})
                /\ UNCHANGED <<meta, history>>
           ELSE LET m == CountAppend(meta)
                    toSave == [op EXCEPT !.save_for = "append"]
                IN  /\ data_file' = FileOf(Join(data_file.bytes, EncodeEntry(op.entry)))
                    /\ meta' = m
                    /\ survivors' = Append(survivors, op.entry)
                    /\ IF config.auto_cleanup /\ UsageAtThreshold(m, config)
                       THEN IF m.active_entries <= TargetEntries(config)
                            THEN Step("save_open", toSave, {}, {"f"})
                            ELSE DeleteEnter(op, m,
                                             m.active_entries - TargetEntries(config),
                                             {"f"})
                       ELSE Step("save_open", toSave, {}, {"f"})
    /\ UNCHANGED <<initialized, config, mounted, meta_file, temp_file, call, out>>

\* --------------------------------------------------------------- format
\* flash_mgr_format
FlashMgrFormat ==
    /\ Enter("format", <<>>)
    /\ IF ~initialized
       THEN Return(ESP_ERR_INVALID_STATE)
       ELSE Goto("fmt_remove_data", [NoOp EXCEPT !.name = "format"])
    /\ UNCHANGED <<gstate, files, faults, history>>

\* remove(data_file), result ignored
FormatRemoveData ==
    /\ pc = "fmt_remove_data"
    /\ \E fail \in BOOLEAN :
        /\ fail => data_file.exists
        /\ Inject(Bit(fail))
        /\ data_file' = Remove(data_file, fail)
    /\ Goto("fmt_remove_meta", op)
    /\ UNCHANGED <<gstate, meta_file, temp_file, call, out, history>>

\* remove(meta_file), result ignored; the ledger is reset and saved
FormatRemoveMeta ==
    /\ pc = "fmt_remove_meta"
    /\ \E fail \in BOOLEAN :
        /\ fail => meta_file.exists
        /\ Inject(Bit(fail))
        /\ meta_file' = Remove(meta_file, fail)
    /\ meta' = FreshMeta
    /\ survivors' = <<>>
    /\ Goto("save_open", [op EXCEPT !.save_for = "format"])
    /\ UNCHANGED <<initialized, config, mounted, data_file, temp_file, call, out>>

\* ---------------------------------------------------------------- reads
\* The entries flash_mgr_read_chunk puts into the buffer: from offset 0,
\* min(max_entries, active_entries) blocks, fewer at the end of the file.
ReadEntries(f, m, max_entries) ==
    LET entries_to_read == IF max_entries < m.active_entries THEN max_entries
                           ELSE m.active_entries
        n == IF entries_to_read < Blocks(f.bytes) THEN entries_to_read
             ELSE Blocks(f.bytes)
    IN  SubSeq(EntriesOf(f), 1, n)

\* flash_mgr_read_chunk (buffer and entries_read not NULL)
FlashMgrReadChunk ==
    /\ \E max_entries \in ReadLimits, fail \in BOOLEAN :
        /\ pc = "idle"
        /\ call' = [name |-> "read_chunk", args |-> <<max_entries>>, pre |-> Snapshot]
        /\ fail => initialized /\ meta.active_entries # 0 /\ data_file.exists
        /\ Inject(Bit(fail))
        /\ IF ~initialized
           THEN /\ Return(ESP_ERR_INVALID_ARG)
                /\ out' = NoOut
           ELSE IF meta.active_entries = 0
           THEN /\ Return(ESP_OK)
                /\ out' = NoOut
           ELSE IF fail \/ ~data_file.exists
           THEN /\ Return(ESP_FAIL)
                /\ out' = NoOut
           ELSE LET buf == ReadEntries(data_file, meta, max_entries)
                IN  /\ Return(ESP_OK)
                    /\ out' = [NoOut EXCEPT !.entries_read = Len(buf), !.buffer = buf]
    /\ UNCHANGED <<gstate, files, history>>

\* The flash_mgr_status_t written by flash_mgr_get_status.
StatusOf(m, c) ==
    [total_entries |-> m.total_entries,
     active_entries |-> m.active_entries,
     deleted_entries |-> m.deleted_from_start,
     free_space_bytes |-> U32(c.max_data_size - m.active_entries * ENTRY_SIZE),
     used_space_bytes |-> U32(m.active_entries * ENTRY_SIZE),
     initialized |-> TRUE]

\* flash_mgr_get_status (status not NULL)
FlashMgrGetStatus ==
    /\ pc = "idle"
    /\ call' = [name |-> "get_status", args |-> <<>>, pre |-> Snapshot]
    /\ IF ~initialized
       THEN /\ Return(ESP_ERR_INVALID_STATE)
            /\ out' = NoOut
       ELSE /\ Return(ESP_OK)
            /\ out' = [NoOut EXCEPT !.status = StatusOf(meta, config)]
    /\ UNCHANGED <<gstate, files, faults, history>>

\* ---------------------------------------------------------- power loss
\* A power loss: RAM is lost, the files stay; a write in flight leaves any
\* of the byte counts a failing write can leave.
Crash ==
    /\ Inject(1)
    /\ initialized' = FALSE
    /\ config' = ZeroConfig
    /\ meta' = ZeroMeta
    /\ mounted' = FALSE
    /\ Leave(NO_RETURN, resources)
    /\ IF pc = "append_write"
       THEN /\ \E k \in ShortWriteLens :
                data_file' = FileOf(Join(data_file.bytes,
                                         TakeBytes(EncodeEntry(op.entry), k)))
            /\ UNCHANGED <<meta_file, temp_file>>
       ELSE IF pc = "save_write"
       THEN /\ \E k \in ShortWriteLens : meta_file' = FileOf(MetaPrefix(meta, k))
            /\ UNCHANGED <<data_file, temp_file>>
       ELSE UNCHANGED files
    /\ UNCHANGED <<call, out, history>>

\* The API calls and their steps: a run without power loss.
NextCalls ==
    \/ FlashMgrInit
    \/ FlashMgrDeinit
    \/ FlashMgrAppend
    \/ AppendOpen
    \/ AppendWrite
    \/ FlashMgrReadChunk
    \/ FlashMgrDelete
    \/ FlashMgrCleanup
    \/ DelFullRemove
    \/ DelMalloc
    \/ DelOpenSrc
    \/ DelOpenDst
    \/ DelSeek
    \/ DelCopy
    \/ DelClose
    \/ DelRemoveOrig
    \/ DelRename
    \/ FlashMgrGetStatus
    \/ FlashMgrFormat
    \/ FormatRemoveData
    \/ FormatRemoveMeta
    \/ SaveOpen
    \/ SaveWrite

Next == NextCalls \/ Crash

\* Calls, failing file operations and power losses.
Spec == Init /\ [][Next]_vars

\* Calls and failing file operations, no power loss.
SpecCalls == Init /\ [][NextCalls]_vars

\* ------------------------------------------------------- configuration
\* flash_mgr_init with every config of WideConfigArgs, and flash_mgr_deinit.
NextConfig ==
    \/ FlashMgrInitWide
    \/ FlashMgrDeinit
    \/ SaveOpen
    \/ SaveWrite

\* Init and deinit cycles over the configs around the validated limits.
SpecConfig == Init /\ [][NextConfig]_vars

\* ------------------------------------------------- compaction of a store
\* The entry that the append with the given id stores.
StoredEntry(id) ==
    Entry(CHOOSE ts \in Timestamps : TRUE, id, CHOOSE type \in Types : TRUE,
          CHOOSE unit \in Units : TRUE, CHOOSE value \in Values : TRUE)

\* Sizes of the stores that compaction is run on: with chunk_buffer_size
\* 1024 (64 entries) the surviving bytes are less than a chunk, exactly a
\* chunk, or a chunk and a part.
StoreSizes == {2, 65, MaxStore - 1, MaxStore}

\* The engine after flash_mgr_init(CfgManual) on an empty partition and n
\* appends that returned ESP_OK: without auto cleanup an append has no
\* capacity limit.
InitCompaction ==
    \E n \in StoreSizes :
        /\ initialized = TRUE
        /\ config = CfgManual
        /\ meta = [FreshMeta EXCEPT !.total_entries = n, !.active_entries = n,
                                   !.next_id = n]
        /\ mounted = TRUE
        /\ data_file = FileOf([i \in 1..n |-> Cell(StoredEntry(i - 1), 0, ENTRY_SIZE)])
        /\ meta_file = FileOf(EncodeMeta([FreshMeta EXCEPT !.total_entries = n,
                                                          !.active_entries = n,
                                                          !.next_id = n]))
        /\ temp_file = AbsentFile
        /\ pc = "idle"
        /\ op = NoOp
        /\ call = NoCall
        /\ ret = NO_RETURN
        /\ returned_at = "idle"
        /\ out = NoOut
        /\ faults = 0
        /\ survivors = [i \in 1..n |-> StoredEntry(i - 1)]
        /\ threads = NoThreads
        /\ resources = {}
    /\ resources = {}

\* flash_mgr_delete and its steps, and flash_mgr_get_status.
NextCompaction ==
    \/ FlashMgrDelete
    \/ DelFullRemove
    \/ DelMalloc
    \/ DelOpenSrc
    \/ DelOpenDst
    \/ DelSeek
    \/ DelCopy
    \/ DelClose
    \/ DelRemoveOrig
    \/ DelRename
    \/ SaveOpen
    \/ SaveWrite
    \/ FlashMgrGetStatus

\* Evictions, with failing file operations, from a filled store.
SpecCompaction == InitCompaction /\ [][NextCompaction]_vars

\* ------------------------------------------------ filling up to eviction
\* The engine after flash_mgr_init(CfgNineSeven) on an empty partition.  No
\* file operation fails in the runs from here.
InitAuto ==
    /\ initialized = TRUE
    /\ config = CfgNineSeven
    /\ meta = FreshMeta
    /\ mounted = TRUE
    /\ data_file = AbsentFile
    /\ meta_file = AbsentFile
    /\ temp_file = AbsentFile
    /\ pc = "idle"
    /\ op = NoOp
    /\ call = NoCall
    /\ ret = NO_RETURN
    /\ returned_at = "idle"
    /\ out = NoOut
    /\ faults = MaxFaults
    /\ survivors = <<>>
    /\ threads = NoThreads
    /\ resources = {}

\* flash_mgr_append_with_timestamp and its steps, perform_auto_cleanup
\* with the compaction included.
NextAuto ==
    \/ FlashMgrAppend
    \/ AppendOpen
    \/ AppendWrite
    \/ DelMalloc
    \/ DelOpenSrc
    \/ DelOpenDst
    \/ DelSeek
    \/ DelCopy
    \/ DelClose
    \/ DelRemoveOrig
    \/ DelRename
    \/ SaveOpen
    \/ SaveWrite
    \/ FlashMgrGetStatus

\* Appends from an empty store with automatic cleanup at 0.9 down to 0.7.
SpecAuto == InitAuto /\ [][NextAuto]_vars

\* --------------------------------------- filling under valid configs
\* Configs with auto_cleanup that flash_mgr_init accepts.
AutoConfigs == {CfgAuto, CfgNineSeven, CfgZeroTarget}

\* The engine after flash_mgr_init(c) on an empty partition, for each c of
\* AutoConfigs.  No file operation fails in the runs from here.
InitAutoConfigs ==
    /\ initialized = TRUE
    /\ config \in AutoConfigs
    /\ meta = FreshMeta
    /\ mounted = TRUE
    /\ data_file = AbsentFile
    /\ meta_file = AbsentFile
    /\ temp_file = AbsentFile
    /\ pc = "idle"
    /\ op = NoOp
    /\ call = NoCall
    /\ ret = NO_RETURN
    /\ returned_at = "idle"
    /\ out = NoOut
    /\ faults = MaxFaults
    /\ survivors = <<>>
    /\ threads = NoThreads
    /\ resources = {}

\* flash_mgr_append_with_timestamp with perform_auto_cleanup, the eviction
\* of every entry included, and flash_mgr_read_chunk.
NextAutoConfigs ==
    \/ NextAuto
    \/ DelFullRemove
    \/ FlashMgrReadChunk

\* Appends and reads from an empty store under each config of AutoConfigs.
SpecAutoConfigs == InitAutoConfigs /\ [][NextAutoConfigs]_vars

\* ------------------------------------------------- calls without a lock
\* g_state is a plain static struct (no mutex, no atomics): two tasks that
\* call flash_mgr_append_with_timestamp at the same time race on it.  Each
\* load and each store of a counter is a step of its own, so that every
\* interleaving the two tasks can produce is a behaviour; the append of the
\* bytes to the file and the write of the ledger file are one step each.
\* No file operation fails.
TaskGoes(t, l, reg, entry) ==
    threads' = [threads EXCEPT !.task[t].pc = l, !.task[t].reg = reg,
                               !.task[t].entry = entry]

\* The store of next_id++ that writes back the value it loaded.
TaskStoreNextIdStale(t) ==
    LET me == threads.task[t]
    IN  /\ me.pc = "store_next_id"
        /\ meta' = [meta EXCEPT !.next_id = me.reg]
        /\ TaskGoes(t, "write_file", me.reg, [me.entry EXCEPT !.id = me.reg])
        /\ UNCHANGED <<initialized, config, mounted, files, pc, op, call, ret,
                       returned_at, out, faults, survivors, resources>>

\* A task enters flash_mgr_append_with_timestamp (the engine is initialized)
TaskAppend(t) ==
    LET me == threads.task[t]
    IN  /\ me.pc = "idle"
        /\ initialized
        /\ me.calls < MaxTaskAppends
        /\ \E ts \in Timestamps, type \in Types, unit \in Units, value \in Values :
              threads' = [threads EXCEPT
                  !.task[t] = [pc |-> "load_next_id", reg |-> 0,
                               entry |-> Entry(ts, 0, type, unit, value),
                               calls |-> me.calls + 1],
                  !.overlapped = @ \/ \E u \in Threads \ {t} :
                                          threads.task[u].pc # "idle"]
        /\ UNCHANGED <<gstate, files, pc, op, call, ret, returned_at, out,
                       faults, survivors, resources>>

\* .id = g_state.meta.next_id++ : the load
TaskLoadNextId(t) ==
    LET me == threads.task[t]
    IN  /\ me.pc = "load_next_id"
        /\ TaskGoes(t, "store_next_id", meta.next_id, me.entry)
        /\ UNCHANGED <<gstate, files, pc, op, call, ret, returned_at, out,
                       faults, survivors, resources>>

\* .id = g_state.meta.next_id++ : the store of the incremented value
TaskStoreNextId(t) ==
    LET me == threads.task[t]
    IN  /\ me.pc = "store_next_id"
        /\ meta' = [meta EXCEPT !.next_id = me.reg + 1]
        /\ TaskGoes(t, "write_file", me.reg, [me.entry EXCEPT !.id = me.reg])
        /\ UNCHANGED <<initialized, config, mounted, files, pc, op, call, ret,
                       returned_at, out, faults, survivors, resources>>

\* fopen(data_file, "ab"), fwrite of the entry, fclose
TaskWriteFile(t) ==
    LET me == threads.task[t]
    IN  /\ me.pc = "write_file"
        /\ data_file' = FileOf(Join(data_file.bytes, EncodeEntry(me.entry)))
        /\ TaskGoes(t, "load_total", me.reg, me.entry)
        /\ UNCHANGED <<gstate, meta_file, temp_file, pc, op, call, ret,
                       returned_at, out, faults, survivors, resources>>

\* g_state.meta.total_entries++ : the load
TaskLoadTotal(t) ==
    LET me == threads.task[t]
    IN  /\ me.pc = "load_total"
        /\ TaskGoes(t, "store_total", meta.total_entries, me.entry)
        /\ UNCHANGED <<gstate, files, pc, op, call, ret, returned_at, out,
                       faults, survivors, resources>>

\* g_state.meta.total_entries++ : the store
TaskStoreTotal(t) ==
    LET me == threads.task[t]
    IN  /\ me.pc = "store_total"
        /\ meta' = [meta EXCEPT !.total_entries = me.reg + 1]
        /\ TaskGoes(t, "load_active", me.reg, me.entry)
        /\ UNCHANGED <<initialized, config, mounted, files, pc, op, call, ret,
                       returned_at, out, faults, survivors, resources>>

\* g_state.meta.active_entries++ : the load
TaskLoadActive(t) ==
    LET me == threads.task[t]
    IN  /\ me.pc = "load_active"
        /\ TaskGoes(t, "store_active", meta.active_entries, me.entry)
        /\ UNCHANGED <<gstate, files, pc, op, call, ret, returned_at, out,
                       faults, survivors, resources>>

\* g_state.meta.active_entries++ : the store
TaskStoreActive(t) ==
    LET me == threads.task[t]
    IN  /\ me.pc = "store_active"
        /\ meta' = [meta EXCEPT !.active_entries = me.reg + 1]
        /\ TaskGoes(t, "save", me.reg, me.entry)
        /\ UNCHANGED <<initialized, config, mounted, files, pc, op, call, ret,
                       returned_at, out, faults, survivors, resources>>

\* auto_cleanup is off; save_metadata, return ESP_OK
TaskSave(t) ==
    LET me == threads.task[t]
    IN  /\ me.pc = "save"
        /\ ~config.auto_cleanup
        /\ meta_file' = FileOf(EncodeMeta(meta))
        /\ TaskGoes(t, "idle", 0, NoEntry)
        /\ UNCHANGED <<gstate, data_file, temp_file, pc, op, call, ret,
                       returned_at, out, faults, survivors, resources>>

\* The engine after flash_mgr_init(CfgManual) on an empty partition, with
\* the tasks outside it.
InitThreads ==
    /\ initialized = TRUE
    /\ config = CfgManual
    /\ meta = FreshMeta
    /\ mounted = TRUE
    /\ data_file = AbsentFile
    /\ meta_file = AbsentFile
    /\ temp_file = AbsentFile
    /\ pc = "idle"
    /\ op = NoOp
    /\ call = NoCall
    /\ ret = NO_RETURN
    /\ returned_at = "idle"
    /\ out = NoOut
    /\ faults = 0
    /\ survivors = <<>>
    /\ threads = NoThreads
    /\ resources = {}

NextThreads ==
    \E t \in Threads :
        \/ TaskAppend(t)
        \/ TaskLoadNextId(t)
        \/ TaskStoreNextId(t)
        \/ TaskWriteFile(t)
        \/ TaskLoadTotal(t)
        \/ TaskStoreTotal(t)
        \/ TaskLoadActive(t)
        \/ TaskStoreActive(t)
        \/ TaskSave(t)

\* Two tasks that append without a lock, no failing file operation.
SpecThreads == InitThreads /\ [][NextThreads]_vars

\* =============================================================== claims
\* The steps of the compaction (partial clear) of flash_mgr_delete.
CompactionSteps ==
    {"del_malloc", "del_open_src", "del_open_dst", "del_seek", "del_copy",
     "del_close", "del_remove_orig", "del_rename"}

\* The data file that a compaction dropping count entries of file f under
\* ledger m is to produce.
CompactedFile(f, m, count) ==
    FileOf(TakeBytes(DropBytes(f.bytes, BytesToSkip(count)), RemainingBytes(m, count)))

\* The argument of the delete or cleanup call in progress or last made.
CallArg == call.args[1]

SumHolds(m) == m.total_entries = m.active_entries + m.deleted_from_start

\* The entries of a sequence of decoded entries carry strictly increasing ids.
IdsIncrease(entries) ==
    \A i, j \in 1..Len(entries) :
        (i < j /\ ~entries[i].torn /\ ~entries[j].torn)
            => entries[i].entry.id < entries[j].entry.id

\* C1: at every operation boundary of an initialized engine, failing file
\* operations included, active_entries equals the number of whole records
\* in the data file.
ActiveEqualsWholeRecords ==
    (pc = "idle" /\ initialized) => meta.active_entries = WholeRecords(data_file)

\* C2: in every state of an initialized engine, whatever calls succeeded or
\* failed, total_entries = active_entries + deleted_from_start.
TotalIsActivePlusDeleted == initialized => SumHolds(meta)

\* C2 witness: a call has failed on an engine that has appended and evicted.
FailedCallAfterEvictions ==
    /\ pc = "idle"
    /\ initialized
    /\ call.name \in {"append", "delete", "cleanup", "format"}
    /\ ret \in {ESP_FAIL, ESP_ERR_NO_MEM}
    /\ meta.active_entries > 0
    /\ meta.deleted_from_start > 0

\* C3: an init that succeeds right after a power loss inside an append or
\* an evict loads a ledger whose active_entries equals the number of whole
\* records in the data file and whose total is active plus deleted.
CrashRecoveryKeepsInvariants ==
    (/\ pc = "idle"
     /\ call.name = "init"
     /\ ret = ESP_OK
     /\ call.pre.interrupted \in {"append", "delete", "cleanup"})
    => (meta.active_entries = WholeRecords(data_file) /\ SumHolds(meta))

\* C4: at every step of a partial evict the data file path holds the whole
\* file from before the evict or the whole compacted file.
ReplacementIsAtomic ==
    (call.name \in {"delete", "cleanup"} /\ pc \in CompactionSteps)
    => data_file \in {call.pre.data_file,
                      CompactedFile(call.pre.data_file, call.pre.meta, op.count)}

\* C5: a partial evict that fails at a step of the compaction returns with
\* the data file and the ledger as they were at the call and with no
\* temporary file.
CompactionFailureLeavesStateUntouched ==
    (/\ pc = "idle"
     /\ call.name \in {"delete", "cleanup"}
     /\ ret \in {ESP_FAIL, ESP_ERR_NO_MEM}
     /\ returned_at \in CompactionSteps)
    => (/\ data_file = call.pre.data_file
        /\ meta = call.pre.meta
        /\ ~temp_file.exists)

\* C6: an append that returns an error after a failed file operation leaves
\* the in-memory ledger and the contents of the data file as they were at
\* the call.
AppendFailureLeavesStateUnchanged ==
    (/\ pc = "idle"
     /\ call.name = "append"
     /\ call.pre.initialized
     /\ ret = ESP_FAIL)
    => (/\ meta = call.pre.meta
        /\ data_file.bytes = call.pre.data_file.bytes)

\* C7: an init that finds the ledger file cut short by a power loss inside a
\* ledger save, and whose flash and file system come up, succeeds with a
\* zeroed ledger with the magic set.
TruncatedLedgerInitSucceeds ==
    (/\ pc = "idle"
     /\ call.name = "init"
     /\ returned_at \in {"load_metadata", "end"}
     /\ call.pre.interrupted \in {"append", "delete", "cleanup", "format", "deinit"}
     /\ call.pre.meta_file.exists
     /\ Len(call.pre.meta_file.bytes) < META_FIELDS)
    => (ret = ESP_OK /\ initialized /\ meta = FreshMeta)

\* C8: a read_chunk that succeeds returns the oldest surviving entries, in
\* append order, with strictly increasing ids.
ReadChunkInAppendOrder ==
    (pc = "idle" /\ call.name = "read_chunk" /\ ret = ESP_OK)
    => (/\ Len(out.buffer) <= Len(survivors)
        /\ \A i \in 1..Len(out.buffer) :
              ~out.buffer[i].torn /\ out.buffer[i].entry = survivors[i]
        /\ IdsIncrease(out.buffer))

\* C9: the whole records of the data file carry distinct ids, and an entry
\* appended later (it lies later in the file, and later among the surviving
\* entries) carries a greater id than every entry appended before it.
IdsUniqueAndIncreasing ==
    /\ IdsIncrease(EntriesOf(data_file))
    /\ \A i, j \in 1..Len(survivors) : i < j => survivors[i].id < survivors[j].id

\* C10: a delete(count) with 0 < count <= active_entries that returns ESP_OK
\* has decreased active_entries by count, increased deleted_from_start by
\* count, kept total_entries and next_id, and the ledger file holds the
\* resulting ledger.
EvictCountsExactly ==
    (/\ pc = "idle"
     /\ call.name = "delete"
     /\ ret = ESP_OK
     /\ call.pre.initialized
     /\ CallArg > 0
     /\ CallArg <= call.pre.meta.active_entries)
    => (/\ meta.active_entries = call.pre.meta.active_entries - CallArg
        /\ meta.deleted_from_start = call.pre.meta.deleted_from_start + CallArg
        /\ meta.total_entries = call.pre.meta.total_entries
        /\ meta.next_id = call.pre.meta.next_id
        /\ meta_file = FileOf(EncodeMeta(meta)))

\* C10 witness: a partial evict has returned ESP_OK.
PartialEvictSucceeded ==
    /\ pc = "idle"
    /\ call.name = "delete"
    /\ ret = ESP_OK
    /\ call.pre.initialized
    /\ CallArg > 0
    /\ CallArg < call.pre.meta.active_entries

\* C11: a delete(count) with count >= active_entries > 0 that returns ESP_OK
\* leaves no file at the data path.
FullClearLeavesNoFile ==
    (/\ pc = "idle"
     /\ call.name = "delete"
     /\ ret = ESP_OK
     /\ call.pre.initialized
     /\ call.pre.meta.active_entries > 0
     /\ CallArg >= call.pre.meta.active_entries)
    => ~data_file.exists

\* C12: a delete(count) with 0 < count < active_entries that returns ESP_OK
\* leaves a data file that is, block for block and in order, the blocks
\* count .. active_entries - 1 of the file before the call, and nothing else.
PartialEvictKeepsTail ==
    (/\ pc = "idle"
     /\ call.name = "delete"
     /\ ret = ESP_OK
     /\ call.pre.initialized
     /\ CallArg > 0
     /\ CallArg < call.pre.meta.active_entries)
    => (/\ data_file.exists
        /\ ByteLen(data_file.bytes)
             = (call.pre.meta.active_entries - CallArg) * ENTRY_SIZE
        /\ EntriesOf(data_file)
             = SubSeq(EntriesOf(call.pre.data_file), CallArg + 1,
                      call.pre.meta.active_entries))

\* C12 witness: a partial evict has returned ESP_OK after a copy of more
\* than one chunk whose last chunk was not a whole buffer.
MultiChunkEvictSucceeded ==
    /\ pc = "idle"
    /\ call.name = "delete"
    /\ ret = ESP_OK
    /\ call.pre.initialized
    /\ CallArg > 0
    /\ CallArg < call.pre.meta.active_entries
    /\ RemainingBytes(call.pre.meta, CallArg) > call.pre.config.chunk_buffer_size
    /\ RemainingBytes(call.pre.meta, CallArg) % call.pre.config.chunk_buffer_size # 0

\* C13: with max_data_size for N entries, threshold 0.9 and target 0.7, and
\* starting from an empty store, nothing is evicted while the entries
\* appended take less than 0.9 * max_data_size, and the append that brings
\* the usage to 0.9 * max_data_size or more returns with floor(0.7 * N)
\* active entries.
AutoEvictionAtNinetyPercent ==
    LET N == config.max_data_size \div ENTRY_SIZE
        pre == call.pre.meta
    IN  /\ meta.total_entries * ENTRY_SIZE * 10 < 9 * config.max_data_size
            => (meta.deleted_from_start = 0 /\ pc \notin CompactionSteps)
        /\ (/\ pc = "idle"
            /\ call.name = "append"
            /\ ret = ESP_OK
            /\ pre.deleted_from_start = 0
            /\ pre.active_entries * ENTRY_SIZE * 10 < 9 * config.max_data_size
            /\ (pre.active_entries + 1) * ENTRY_SIZE * 10 >= 9 * config.max_data_size)
           => (/\ meta.active_entries = (7 * N) \div 10
               /\ meta.deleted_from_start = pre.active_entries + 1 - (7 * N) \div 10
               /\ Len(EntriesOf(data_file)) = (7 * N) \div 10)

\* C13 witness: the append that brought the usage to 90% has returned
\* after an eviction.
AutoEvictionHappened ==
    /\ pc = "idle"
    /\ call.name = "append"
    /\ ret = ESP_OK
    /\ config = CfgNineSeven
    /\ call.pre.meta.deleted_from_start = 0
    /\ (call.pre.meta.active_entries + 1) * ENTRY_SIZE * 10 >= 9 * config.max_data_size
    /\ meta.deleted_from_start > 0

\* C14: the scenario's first step: flash_mgr_init with max_data_size for 10
\* entries on an uninitialized engine is not rejected as an invalid argument.
TenRecordStoreIsAccepted ==
    (/\ pc = "idle"
     /\ call.name = "init"
     /\ call.args = <<<<CfgTenRecords>>>>
     /\ ~call.pre.initialized)
    => ret # ESP_ERR_INVALID_ARG

\* C15: a read_chunk(limit) that returns ESP_OK on an initialized engine
\* delivers exactly min(limit, active_entries) entries, and they are the
\* first that many whole records of the data file.
ReadChunkReturnsMinOfLimitAndActive ==
    (/\ pc = "idle"
     /\ call.name = "read_chunk"
     /\ call.pre.initialized
     /\ ret = ESP_OK)
    => LET wanted == IF CallArg < meta.active_entries THEN CallArg
                     ELSE meta.active_entries
       IN  /\ out.entries_read = wanted
           /\ Len(out.buffer) = wanted
           /\ out.buffer = SubSeq(EntriesOf(data_file), 1, wanted)
           /\ \A i \in 1..Len(out.buffer) : ~out.buffer[i].torn

\* C16: each of append, read_chunk, delete, get_status, cleanup and format
\* called on an uninitialized engine returns ESP_ERR_INVALID_STATE and
\* changes neither the ledger nor any file.
UninitializedCallsReturnInvalidState ==
    (/\ pc = "idle"
     /\ ret # NO_RETURN
     /\ call.name \in {"append", "read_chunk", "delete", "get_status",
                       "cleanup", "format"}
     /\ ~call.pre.initialized)
    => /\ ret = ESP_ERR_INVALID_STATE
       /\ ~initialized
       /\ meta = call.pre.meta
       /\ data_file = call.pre.data_file
       /\ meta_file = call.pre.meta_file
       /\ temp_file = call.pre.temp_file

\* C17: flash_mgr_init on an initialized engine returns ESP_OK and leaves the
\* stored configuration, the ledger and the files as they were, whatever
\* configuration (another one, an invalid one, NULL) the call passes.
SecondInitChangesNothing ==
    (/\ pc = "idle"
     /\ call.name = "init"
     /\ call.pre.initialized)
    => /\ ret = ESP_OK
       /\ initialized
       /\ config = call.pre.config
       /\ meta = call.pre.meta
       /\ mounted = call.pre.mounted
       /\ data_file = call.pre.data_file
       /\ meta_file = call.pre.meta_file
       /\ temp_file = call.pre.temp_file

\* A second init has passed a valid configuration other than the stored one
\* to an engine that holds entries.
SecondInitWithOtherConfig ==
    /\ pc = "idle"
    /\ call.name = "init"
    /\ call.pre.initialized
    /\ CallArg # <<>>
    /\ CallArg[1] # call.pre.config
    /\ ConfigValid(CallArg[1])
    /\ ret = ESP_OK
    /\ meta.active_entries > 0

\* C18: flash_mgr_init on an uninitialized engine rejects with
\* ESP_ERR_INVALID_ARG, and without changing the engine state, the stored
\* configuration, the ledger or any file, a NULL configuration and every
\* configuration whose max_data_size or chunk_buffer_size is outside its
\* range, whose cleanup_threshold is <= cleanup_target, or one of whose
\* ratios is not within [0, 1].
InitRejectsOutOfRangeConfig ==
    (/\ pc = "idle"
     /\ call.name = "init"
     /\ ~call.pre.initialized
     /\ \/ CallArg = <<>>
        \/ LET c == CallArg[1]
               within(x) == /\ RatioLessEq(Ratio(0, 1), x)
                            /\ RatioLessEq(x, Ratio(1, 1))
           IN  \/ c.max_data_size < FLASH_MGR_MIN_DATA_SIZE
               \/ c.max_data_size > FLASH_MGR_MAX_DATA_SIZE
               \/ c.chunk_buffer_size < FLASH_MGR_MIN_CHUNK_BUFFER_SIZE
               \/ c.chunk_buffer_size > FLASH_MGR_MAX_CHUNK_BUFFER_SIZE
               \/ RatioLessEq(c.cleanup_threshold, c.cleanup_target)
               \/ ~within(c.cleanup_threshold)
               \/ ~within(c.cleanup_target))
    => /\ ret = ESP_ERR_INVALID_ARG
       /\ ~initialized
       /\ config = call.pre.config
       /\ meta = call.pre.meta
       /\ mounted = call.pre.mounted
       /\ data_file = call.pre.data_file
       /\ meta_file = call.pre.meta_file
       /\ temp_file = call.pre.temp_file

\* C19: a delete(count) with count > active_entries is carried out as a
\* delete(active_entries): it is not rejected (only a failing write of the
\* ledger file makes it return an error), active_entries becomes 0 and
\* deleted_from_start grows by the former active_entries, not by count.
OverlongEvictIsClamped ==
    (/\ pc = "idle"
     /\ ret # NO_RETURN
     /\ call.name = "delete"
     /\ call.pre.initialized
     /\ CallArg > call.pre.meta.active_entries)
    => /\ \/ ret = ESP_OK
          \/ ret = ESP_FAIL /\ returned_at \in {"save_open", "save_write"}
       /\ meta.active_entries = 0
       /\ meta.deleted_from_start =
              call.pre.meta.deleted_from_start + call.pre.meta.active_entries
       /\ meta.total_entries = call.pre.meta.total_entries
       /\ meta.next_id = call.pre.meta.next_id

\* A delete that asked for more entries than the two or more the store held
\* has returned ESP_OK.
OverlongEvictSucceeded ==
    /\ pc = "idle"
    /\ ret = ESP_OK
    /\ call.name = "delete"
    /\ call.pre.initialized
    /\ call.pre.meta.active_entries >= 2
    /\ CallArg > call.pre.meta.active_entries
    /\ meta.active_entries = 0
    /\ meta.deleted_from_start >= 2

\* C20: a delete(0), and a cleanup(target_entries) with target_entries >=
\* active_entries, on an initialized engine return ESP_OK and leave the
\* ledger in memory, the ledger file and the data file as they were.
EmptyEvictChangesNothing ==
    (/\ pc = "idle"
     /\ ret # NO_RETURN
     /\ call.pre.initialized
     /\ \/ call.name = "delete" /\ CallArg = 0
        \/ call.name = "cleanup" /\ CallArg >= call.pre.meta.active_entries)
    => /\ ret = ESP_OK
       /\ meta = call.pre.meta
       /\ meta_file = call.pre.meta_file
       /\ data_file = call.pre.data_file

\* A delete(0) has returned on a store that holds entries.
EmptyEvictReturned ==
    /\ pc = "idle"
    /\ ret # NO_RETURN
    /\ call.name = "delete"
    /\ call.pre.initialized
    /\ CallArg = 0
    /\ call.pre.meta.active_entries > 0
    /\ call.pre.data_file.exists

\* C21: a cleanup(target_entries) with target_entries < active_entries that
\* returns ESP_OK has evicted the active_entries - target_entries oldest
\* entries: active_entries is target_entries, deleted_from_start has grown by
\* the difference, and the data file holds the target_entries entries
\* appended last, whole and in order.
CleanupKeepsNewestEntries ==
    (/\ pc = "idle"
     /\ call.name = "cleanup"
     /\ ret = ESP_OK
     /\ call.pre.initialized
     /\ CallArg < call.pre.meta.active_entries)
    => LET before == call.pre.survivors
           evicted == call.pre.meta.active_entries - CallArg
           kept == EntriesOf(data_file)
       IN  /\ meta.active_entries = CallArg
           /\ meta.deleted_from_start
                  = call.pre.meta.deleted_from_start + evicted
           /\ meta.total_entries = call.pre.meta.total_entries
           /\ data_file.exists
           /\ Len(kept) = CallArg
           /\ \A i \in 1..Len(kept) :
                  /\ ~kept[i].torn
                  /\ Len(before) - CallArg + i \in 1..Len(before)
                  /\ kept[i].entry = before[Len(before) - CallArg + i]

\* C22: when the auto cleanup that an append triggered has failed and the
\* save_metadata that follows succeeds, the append returns ESP_OK, the
\* appended entry is a record of the data file, and total_entries and
\* active_entries are each one higher than before the call.
FailedAutoEvictionKeepsAppend ==
    [][(/\ pc = "save_write"
        /\ op.save_for = "append"
        /\ op.cleanup_ret # ESP_OK
        /\ meta_file' = FileOf(EncodeMeta(meta)))
       => (/\ ret' = ESP_OK
           /\ meta'.total_entries = call.pre.meta.total_entries + 1
           /\ meta'.active_entries = call.pre.meta.active_entries + 1
           /\ data_file'.exists
           /\ \E i \in 1..Blocks(data_file'.bytes) :
                  /\ ~EntriesOf(data_file')[i].torn
                  /\ EntriesOf(data_file')[i].entry = op.entry)]_vars

\* C23: when the save_metadata at the end of a flash_mgr_delete fails, after
\* the data file has been compacted or removed, the delete returns an
\* error, the data file stays as the eviction left it, the ledger in memory
\* has the evicted counts, and the ledger file still holds the ledger it
\* held before the call.
FailedSaveAfterEvictKeepsOldLedgerFile ==
    [][(/\ pc \in {"save_open", "save_write"}
        /\ op.name = "delete"
        /\ op.save_for = "delete"
        /\ pc' = "idle"
        /\ meta_file' # FileOf(EncodeMeta(meta)))
       => LET before == call.pre.meta
              count == ClampCount(before, CallArg)
          IN  /\ ret' # ESP_OK
              /\ data_file' = data_file
              /\ count < before.active_entries
                    => data_file' = CompactedFile(call.pre.data_file, before, count)
              /\ meta' = CountEvict(before, count)
              /\ meta_file' = call.pre.meta_file]_vars

\* C24: a flash_mgr_init on an uninitialized engine that gets as far as
\* load_metadata, with no file operation failing, succeeds with a zeroed
\* ledger that has the magic set when the ledger file is absent or is a
\* whole ledger with another magic, and succeeds with the counters of the
\* file when the ledger file is a whole ledger with the right magic.
LoadYieldsFreshOrStoredLedger ==
    [][(/\ pc = "idle"
        /\ ~initialized
        /\ call'.name = "init"
        /\ faults' = faults
        /\ returned_at' \in {"end", "load_metadata"})
       => LET stored == OverlayMeta(ZeroMeta, meta_file'.bytes)
          IN  /\ ~meta_file'.exists
                    => ret' = ESP_OK /\ initialized' /\ meta' = FreshMeta
              /\ (/\ meta_file'.exists
                  /\ Len(meta_file'.bytes) = META_FIELDS
                  /\ stored.magic # FLASH_MGR_METADATA_MAGIC)
                    => ret' = ESP_OK /\ initialized' /\ meta' = FreshMeta
              /\ (/\ meta_file'.exists
                  /\ Len(meta_file'.bytes) = META_FIELDS
                  /\ stored.magic = FLASH_MGR_METADATA_MAGIC)
                    => ret' = ESP_OK /\ initialized' /\ meta' = stored]_vars

\* An init has loaded a ledger file that counts evicted entries.
InitLoadedStoredLedger ==
    /\ pc = "idle"
    /\ call.name = "init"
    /\ ~call.pre.initialized
    /\ ret = ESP_OK
    /\ returned_at = "end"
    /\ meta_file.exists
    /\ meta_file = call.pre.meta_file
    /\ meta = OverlayMeta(ZeroMeta, meta_file.bytes)
    /\ meta.magic = FLASH_MGR_METADATA_MAGIC
    /\ meta.deleted_from_start > 0

\* C25: a flash_mgr_format that returns ESP_OK leaves no data file, a
\* ledger in memory with every counter zero and the magic set, and a ledger
\* file equal to it; the status then reports zero entries and a read_chunk
\* delivers no entry.
FormatLeavesEmptyStore ==
    (/\ pc = "idle"
     /\ call.name = "format"
     /\ call.pre.initialized
     /\ ret = ESP_OK)
    => /\ ~data_file.exists
       /\ meta = FreshMeta
       /\ meta_file = FileOf(EncodeMeta(FreshMeta))
       /\ StatusOf(meta, config).total_entries = 0
       /\ StatusOf(meta, config).active_entries = 0
       /\ \A max_entries \in ReadLimits :
              ReadEntries(data_file, meta, max_entries) = <<>>

\* C26: no step of an append, read_chunk, delete, cleanup or get_status call
\* on an initialized engine decreases total_entries, next_id or
\* deleted_from_start.
LifetimeCountersNeverDecrease ==
    [][(/\ initialized
        /\ initialized'
        /\ call'.name \in {"append", "read_chunk", "delete", "cleanup",
                           "get_status"})
       => (/\ meta'.total_entries >= meta.total_entries
           /\ meta'.next_id >= meta.next_id
           /\ meta'.deleted_from_start >= meta.deleted_from_start)]_vars

\* An append has returned ESP_OK on a store that had evicted entries, and
\* has left each of the three counters above zero.
AppendedAfterEviction ==
    /\ pc = "idle"
    /\ call.name = "append"
    /\ ret = ESP_OK
    /\ call.pre.initialized
    /\ call.pre.meta.deleted_from_start > 0
    /\ meta.total_entries = call.pre.meta.total_entries + 1
    /\ meta.next_id = call.pre.meta.next_id + 1
    /\ meta.deleted_from_start >= call.pre.meta.deleted_from_start

\* C27: flash_mgr_get_status and flash_mgr_read_chunk change neither the
\* ledger in memory nor the ledger file nor the data file, so that a
\* read_chunk repeated with the same limit delivers the same entries; the
\* status reports used_space_bytes = active_entries * sizeof(entry) and
\* free_space_bytes = max_data_size - used_space_bytes.
StatusAndReadArePureReads ==
    (/\ pc = "idle"
     /\ call.name \in {"get_status", "read_chunk"}
     /\ call.pre.initialized
     /\ ret = ESP_OK)
    => /\ gstate = <<TRUE, call.pre.config, call.pre.meta, call.pre.mounted>>
       /\ meta_file = call.pre.meta_file
       /\ data_file = call.pre.data_file
       /\ temp_file = call.pre.temp_file
       /\ call.name = "read_chunk"
             => out.buffer = ReadEntries(data_file, meta, CallArg)
       /\ call.name = "get_status"
             => LET used == meta.active_entries * ENTRY_SIZE
                IN  /\ out.status.used_space_bytes = U32(used)
                    /\ config.max_data_size - used >= 0
                    /\ out.status.free_space_bytes
                           = U32(config.max_data_size - used)

\* C28: every entry that a read_chunk returning ESP_OK delivers is, field
\* for field (timestamp, id, type, unit, value_x1000, reserved bytes zero),
\* an entry that an append has written and that has not been evicted.
ReadEntriesAreAppendedEntries ==
    (/\ pc = "idle"
     /\ call.name = "read_chunk"
     /\ call.pre.initialized
     /\ ret = ESP_OK)
    => \A i \in 1..Len(out.buffer) :
           /\ ~out.buffer[i].torn
           /\ out.buffer[i].entry.reserved = <<0, 0>>
           /\ \E j \in 1..Len(survivors) :
                  LET read == out.buffer[i].entry
                      appended == survivors[j]
                  IN  /\ read.timestamp = appended.timestamp
                      /\ read.id = appended.id
                      /\ read.type = appended.type
                      /\ read.unit = appended.unit
                      /\ read.value_x1000 = appended.value_x1000
                      /\ read.reserved = appended.reserved

\* C29: g_state.initialized becomes true only when a flash_mgr_init returns
\* ESP_OK and false only in a flash_mgr_deinit; a deinit of an initialized
\* engine returns ESP_OK, leaves the engine uninitialized and the ledger
\* file equal to the ledger that was in memory when it was called; a deinit
\* of an uninitialized engine returns ESP_OK and changes nothing.
LifecycleAndDeinitPersists ==
    [][/\ (~initialized /\ initialized')
              => (call'.name = "init" /\ ret' = ESP_OK)
       /\ (initialized /\ ~initialized') => call'.name = "deinit"
       /\ (call'.name = "deinit" /\ pc' = "idle")
              => /\ ret' = ESP_OK
                 /\ ~initialized'
                 /\ data_file' = call'.pre.data_file
                 /\ temp_file' = call'.pre.temp_file
                 /\ IF call'.pre.initialized
                    THEN meta_file' = FileOf(EncodeMeta(call'.pre.meta))
                    ELSE /\ meta_file' = call'.pre.meta_file
                         /\ gstate' = gstate]_vars

\* C30: an entry is 18 bytes wide: an append that returns ESP_OK without an
\* auto cleanup makes the data file 18 bytes longer, the status reports
\* used_space_bytes = 18 * active_entries, and the capacity in entries is
\* max_data_size / 18.
RecordWidthIsEighteenBytes ==
    /\ (/\ pc = "idle"
        /\ call.name = "append"
        /\ call.pre.initialized
        /\ ~call.pre.config.auto_cleanup
        /\ ret = ESP_OK)
       => ByteLen(data_file.bytes)
              = ByteLen(call.pre.data_file.bytes) + FLASH_MGR_ENTRY_SIZE
    /\ (/\ pc = "idle"
        /\ call.name = "get_status"
        /\ call.pre.initialized
        /\ ret = ESP_OK)
       => out.status.used_space_bytes
              = U32(FLASH_MGR_ENTRY_SIZE * meta.active_entries)
    /\ initialized
       => CalculateMaxEntries(config)
              = config.max_data_size \div FLASH_MGR_ENTRY_SIZE

\* C31: as long as no two flash_mgr_append calls have overlapped, the whole
\* records of the data file carry distinct ids and the ledger has counted
\* every append that returned; two calls that overlap can leave two records
\* with the same id and a ledger that misses an increment.
SerializedAppendsKeepIdsAndCounts ==
    LET entries == EntriesOf(data_file)
        returned == threads.task[1].calls + threads.task[2].calls
    IN  (/\ \A t \in Threads : threads.task[t].pc = "idle"
         /\ ~threads.overlapped)
        => /\ \A i, j \in 1..Len(entries) :
                  i # j => entries[i].entry.id # entries[j].entry.id
           /\ Len(entries) = returned
           /\ meta.next_id = returned
           /\ meta.total_entries = returned
           /\ meta.active_entries = returned

\* Two overlapping appends have returned, leaving two records with the
\* same id and a ledger that counts fewer entries than were appended.
OverlappingAppendsShareAnId ==
    LET entries == EntriesOf(data_file)
    IN  /\ \A t \in Threads : threads.task[t].pc = "idle"
        /\ threads.overlapped
        /\ \E i, j \in 1..Len(entries) :
               i # j /\ entries[i].entry.id = entries[j].entry.id
        /\ meta.total_entries < Len(entries)
        /\ meta.active_entries < Len(entries)

\* C32: between two calls no FILE handle is open and no malloc'ed buffer
\* is held: every handler has closed what it opened and freed the
\* compaction buffer, whether it returned success or an error.
NoHandleOrBufferHeldBetweenCalls ==
    pc = "idle" => resources = {}

\* flash_mgr_delete has returned ESP_FAIL from the fseek error path, which
\* is entered with the buffer and both handles held.
DeleteFailedWithBothFilesOpen ==
    /\ pc = "idle"
    /\ call.name = "delete"
    /\ returned_at = "del_seek"
    /\ ret = ESP_FAIL
    /\ resources = {}

\* C33: when flash_mgr_append_with_timestamp returns ESP_OK, the entry it
\* was given, under the id it took, is the last whole record of the data
\* file: the automatic cleanup inside the call has not evicted it.
AppendedEntryIsLastRecord ==
    LET entries == EntriesOf(data_file)
        a == call.args
    IN  (/\ pc = "idle"
         /\ call.name = "append"
         /\ call.pre.initialized
         /\ ret = ESP_OK)
        => /\ Len(entries) > 0
           /\ entries[Len(entries)].entry
                  = Entry(a[1], call.pre.meta.next_id, a[2], a[3], a[4])

\* C34: with auto_cleanup on, from an empty store and with no failing file
\* operation, after every append that returned the usage is below the
\* threshold, active_entries * sizeof(flash_mgr_entry_t) <
\* cleanup_threshold * max_data_size, and active_entries is no more than
\* max_data_size / sizeof(flash_mgr_entry_t).
UsageBelowThresholdAfterAppend ==
    (/\ pc = "idle"
     /\ call.name = "append"
     /\ ret # NO_RETURN)
    => LET g == GCD(config.cleanup_threshold.d, config.max_data_size)
       IN  /\ ret = ESP_OK
           /\ meta.active_entries * ENTRY_SIZE * (config.cleanup_threshold.d \div g)
                  < config.cleanup_threshold.n * (config.max_data_size \div g)
           /\ meta.active_entries <= config.max_data_size \div ENTRY_SIZE

\* An append has returned after its automatic cleanup left the target
\* number of entries.
AppendEvictedDownToTarget ==
    /\ pc = "idle"
    /\ call.name = "append"
    /\ ret = ESP_OK
    /\ returned_at = "save_write"
    /\ meta.deleted_from_start > call.pre.meta.deleted_from_start
    /\ meta.active_entries = TargetEntries(config)
    /\ meta.active_entries > 0

\* C35: on an initialized engine the status that flash_mgr_get_status
\* computes has used_space_bytes + free_space_bytes = max_data_size and
\* free_space_bytes <= max_data_size: the 32-bit subtraction has not wrapped,
\* with auto_cleanup off too.
StatusSpaceAddsUpToMaxDataSize ==
    initialized =>
        LET st == StatusOf(meta, config)
            used == st.used_space_bytes
            free == st.free_space_bytes
            max == U32(config.max_data_size)
            lo == used.lo + free.lo
        IN  /\ lo % 65536 = max.lo
            /\ used.hi + free.hi + lo \div 65536 = max.hi
            /\ \/ free.hi < max.hi
               \/ free.hi = max.hi /\ free.lo <= max.lo

\* C36: when an append, a delete, a cleanup or a format has returned ESP_OK,
\* the ledger that load_metadata would read from the ledger file is the
\* ledger in memory, so that a deinit and an init with the same config bring
\* back total_entries, active_entries, next_id and deleted_from_start.
SuccessLeavesLedgerStored ==
    (/\ pc = "idle"
     /\ call.name \in {"append", "delete", "cleanup", "format"}
     /\ call.pre.initialized
     /\ ret = ESP_OK)
    => LET stored == LoadMetadata(ZeroMeta, meta_file, "none")
       IN  /\ stored.ret = ESP_OK
           /\ stored.meta = meta

\* C37: a compaction copies the surviving tail to the temporary file, then
\* removes the data file, then renames the temporary file onto the data
\* path, and only then updates the ledger in memory and saves it: up to the
\* rename the ledger in memory and the ledger file are those of the start
\* of the eviction, and once active_entries is reduced the data path holds
\* the compacted file.
CompactionUpdatesLedgerAfterRename ==
    LET before == call.pre.meta.active_entries
                      + (IF call.name = "append" THEN 1 ELSE 0)
    IN  /\ pc \in CompactionSteps
           => /\ meta.active_entries = before
              /\ meta.deleted_from_start = call.pre.meta.deleted_from_start
              /\ meta_file = call.pre.meta_file
        /\ pc \in {"del_seek", "del_copy", "del_close", "del_remove_orig"}
           => (data_file.exists /\ temp_file.exists)
        /\ pc = "del_remove_orig"
           => temp_file = CompactedFile(data_file, meta, op.count)
        /\ pc = "del_rename" => (~data_file.exists /\ temp_file.exists)
        /\ (/\ pc \in {"save_open", "save_write"}
            /\ op.save_for = "delete"
            /\ meta.active_entries > 0)
           => /\ meta.active_entries = before - op.count
              /\ ~temp_file.exists
              /\ data_file.exists
              /\ ByteLen(data_file.bytes) = meta.active_entries * ENTRY_SIZE

\* A flash_mgr_delete has renamed the compacted file onto the data path
\* and updated the ledger, and is about to save it.
CompactionRenamedBeforeSave ==
    /\ pc = "save_open"
    /\ op.save_for = "delete"
    /\ call.name = "delete"
    /\ meta.active_entries > 0
    /\ meta.active_entries < call.pre.meta.active_entries
    /\ meta_file = call.pre.meta_file

\* C38: a flash_mgr_init that fails after the validation (in
\* init_external_flash, init_littlefs or load_metadata) leaves the engine
\* as it was before the call: uninitialized, with the config and the ledger
\* in memory unchanged and the file system not mounted.
FailedInitLeavesEngineUntouched ==
    (/\ pc = "idle"
     /\ call.name = "init"
     /\ ~call.pre.initialized
     /\ returned_at \in {"init_external_flash", "init_littlefs", "load_metadata"})
    => /\ ~initialized
       /\ config = call.pre.config
       /\ meta = call.pre.meta
       /\ ~mounted

\* The most steps that the handler of flash_mgr_delete can still take from
\* where it is: the iterations of the copy loop that are left are
\* ceil((remaining_bytes - bytes_copied) / chunk_buffer_size).
EvictStepsLeft ==
    LET left == RemainingBytes(meta, op.count) - op.bytes_copied
        iterations == (left + config.chunk_buffer_size - 1)
                          \div config.chunk_buffer_size
        all == (RemainingBytes(meta, op.count) + config.chunk_buffer_size - 1)
                   \div config.chunk_buffer_size
    IN  CASE pc = "idle" -> 0
          [] pc = "save_write" -> 1
          [] pc = "save_open" -> 2
          [] pc \in {"del_rename", "del_full_remove"} -> 3
          [] pc = "del_remove_orig" -> 4
          [] pc = "del_close" -> 5
          [] pc = "del_copy" -> 5 + iterations
          [] pc = "del_seek" -> 6 + all
          [] pc = "del_open_dst" -> 7 + all
          [] pc = "del_open_src" -> 8 + all
          [] pc = "del_malloc" -> 9 + all

\* C39: every flash_mgr_delete returns.  chunk_buffer_size is positive, and
\* an iteration of the copy loop either adds a chunk of 1 to
\* chunk_buffer_size bytes to bytes_copied or leaves the loop, so that the
\* loop makes at most ceil(remaining_bytes / chunk_buffer_size) iterations;
\* every step of the handler lowers the number of steps it can still take.
EvictTerminates ==
    [][pc # "idle"
         => /\ EvictStepsLeft' < EvictStepsLeft
            /\ config.chunk_buffer_size > 0
            /\ pc = "del_copy"
                  => \/ pc' = "del_close" /\ op'.bytes_copied = op.bytes_copied
                     \/ /\ op'.bytes_copied - op.bytes_copied
                               \in 1..config.chunk_buffer_size
                        /\ op'.bytes_copied <= RemainingBytes(meta, op.count)
                        /\ pc' = IF op'.bytes_copied
                                      < RemainingBytes(meta, op.count)
                                 THEN "del_copy" ELSE "del_close"]_vars

\* A flash_mgr_delete whose copy loop needed two iterations has returned
\* ESP_OK.
EvictOfTwoChunksReturned ==
    /\ pc = "idle"
    /\ call.name = "delete"
    /\ ret = ESP_OK
    /\ meta.active_entries < call.pre.meta.active_entries
    /\ meta.active_entries * ENTRY_SIZE > config.chunk_buffer_size
    /\ ByteLen(data_file.bytes) = meta.active_entries * ENTRY_SIZE

====
